---- MODULE Spec2Model ----
(***************************************************************************)
(* Model of the green-environment sensor drivers:                          *)
(*   giesomat.py  GiesOMat  (pulse counting soil-moisture driver)           *)
(*   sensor.py    GiesOMat  (earlier copy of the same driver)               *)
(*   ds18b20.py   DS18B20   (1-wire temperature driver)                     *)
(* One driver instance is modelled; `variant` says which class it is.       *)
(* The caller is single threaded; the only concurrent activity is the       *)
(* pigpio edge callback that increments a callback's tally.                 *)
(***************************************************************************)
EXTENDS Integers, Sequences, FiniteSets, TLC

VARIABLES
    variant,          \* which class the instance belongs to
    _gpio,            \* GiesOMat._gpio: list of pins
    _call_backs,      \* GiesOMat._call_backs: list of [gpio, tally]
    _devices,         \* DS18B20._devices: list of device names
    _scale,           \* DS18B20._scale
    _translator,      \* DS18B20._translator: the bound conversion method
    pc,               \* position of the caller inside run / get
    op,               \* the public method the caller invoked last
    supplied,         \* [functor, kwargs] the caller passed to that method
    iteration,        \* local `iteration` of run / get
    n0,               \* value of `iteration` at entry of run / get
    functor,          \* local `functor` of run
    kwargs,           \* local `kwargs` of run
    counter,          \* completed passes of get's `for ... in range(iteration)`
    idx,              \* position of a loop over _call_backs (1-based)
    values,           \* local `values` / `current_temp`: the batch being built
    raw,              \* the raw readings the batch was built from (DS18B20)
    iteration_values, \* local `iteration_values` of get
    result,           \* what the last get returned
    calls,            \* handler invocations of the current run
    reads,            \* batches sampled by the current run / get
    delays,           \* time.sleep calls of the current run / get
    resets,           \* completed reset_tally loops of the current run / get
    absent,           \* the current call handed over a batch holding None
    since,            \* per callback: edges counted in the current call since its last reset_tally
    fresh,            \* per batch position: `since` at the moment the tally was read
    win,              \* per callback: edges counted since its last reset_tally
    late,             \* an edge was counted after run read the callback's tally, before its reset_tally
    lost,             \* a reset_tally loop of the current run wiped such an edge
    err,              \* the exception the last call ended with, or NoError
    request,          \* the argument of the last configuration operation
    listing,          \* the directory contents that operation saw
    missing,          \* the names listed in a "Provided devices" error
    scans             \* os.scandir calls made by the last configuration operation

vars == << variant, _gpio, _call_backs, _devices, _scale, _translator, pc, op,
           supplied, iteration, n0, functor, kwargs, counter, idx, values, raw,
           iteration_values, result, calls, reads, delays, resets, absent, since,
           fresh, win, late, lost, err, request, listing, missing, scans >>

gies_vars == << _gpio, _call_backs, win >>
ds_vars   == << _devices, _scale, _translator >>
call_vars == << supplied, iteration, n0, functor, kwargs >>
loop_vars == << counter, idx, values, raw, iteration_values, calls, reads, delays,
               resets, absent, fresh, late, lost >>
conf_vars == << request, listing, missing, scans >>

(***************************************************************************)
(* Bounds of the model                                                     *)
(***************************************************************************)
MaxIter  == 2      \* largest iteration count passed to run / get
MaxTally == 1      \* largest tally a callback accumulates before a reset

MaxCalls == MaxIter + 2          \* the ghost counters saturate here
Iterations == (0 - 2) .. MaxIter \* iteration arguments of run; negative = endless

\* iteration arguments of get (range(n) is empty for n < 0)
GetArgs == { 0 - 1, 0, 1, 2 }

Inc(c) == IF c < MaxCalls THEN c + 1 ELSE c

Pins == {4, 17}
GpioInt(p)   == [kind |-> "int", pin |-> p]
GpioList(s)  == [kind |-> "list", items |-> s]
GpioArgs == { GpioInt(4), GpioList(<< >>), GpioList(<<4>>), GpioList(<<17, 4>>) }

Handlers == {"default_functor", "collect"}
Options  == {"{}", "{end}"}
\* the (functor, kwargs) pairs callers pass to run / run_endless
CallArgs == { << "default_functor", "{}" >>, << "collect", "{end}" >> }

NoError == "none"
Idle == pc \in {"idle", "done", "raised"}

Zeros(n) == [i \in 1 .. n |-> 0]

NoResult == [kind |-> "list", value |-> << >>]
NoRequest == [kind |-> "none"]
NoListing == [exists |-> FALSE, entries |-> << >>, slaves |-> {}, reprDirs |-> {}]

\* the locals of run / get do not outlive the call
ClearLocals ==
    /\ supplied' = [functor |-> "default_functor", kwargs |-> "{}"]
    /\ iteration' = 0
    /\ n0' = 0
    /\ functor' = "default_functor"
    /\ kwargs' = "{}"
    /\ counter' = 0
    /\ idx' = 1
    /\ values' = << >>
    /\ raw' = << >>
    /\ iteration_values' = << >>
    /\ result' = NoResult
    /\ calls' = 0
    /\ reads' = 0
    /\ delays' = 0
    /\ resets' = 0
    /\ absent' = FALSE
    /\ lost' = FALSE
    /\ fresh' = << >>

\* run / get leave no trace of an earlier configuration call
ClearConf ==
    /\ request' = NoRequest
    /\ listing' = NoListing
    /\ missing' = << >>
    /\ scans' = 0

GiesVariants == {"giesomat", "sensor"}

(***************************************************************************)
(* GiesOMat: configuration                                                 *)
(***************************************************************************)
\* set_gpio: a list is taken as it is, anything else is wrapped in a list
set_gpio(gpio) == IF gpio.kind = "list" THEN gpio.items ELSE << gpio.pin >>

\* gpio(): a copy of _gpio
gpio == [i \in 1 .. Len(_gpio) |-> _gpio[i]]

\* reset: one new pigpio callback per pin of _gpio, each tally reset.  The wave
\* and pin-mask set-up of reset drives the sensors and touches no tally.
reset(pins) == [i \in 1 .. Len(pins) |-> [gpio |-> pins[i], tally |-> 0]]

\* a reset_tally that leaves the count as it is
reset_tally_Keep(cbs, i) == cbs

\* callback.reset_tally() of the callback at position i
reset_tally(cbs, i) == [cbs EXCEPT ![i].tally = 0]

\* callback.tally() of the callback at position i
tally(cbs, i) == cbs[i].tally

SetGpio(g) ==
    /\ variant \in GiesVariants
    /\ Idle
    /\ _gpio' = set_gpio(g)
    /\ pc' = "idle"
    /\ op' = "set_gpio"
    /\ err' = NoError
    /\ request' = g
    /\ ClearLocals
    /\ UNCHANGED << variant, _call_backs, win, ds_vars, since, late, listing, missing,
                    scans >>

Reset ==
    /\ variant \in GiesVariants
    /\ Idle
    /\ _call_backs' = reset(_gpio)
    /\ win' = Zeros(Len(_gpio))
    /\ since' = Zeros(Len(_gpio))
    /\ late' = FALSE
    /\ pc' = "idle"
    /\ op' = "reset"
    /\ err' = NoError
    /\ ClearLocals
    /\ ClearConf
    /\ UNCHANGED << variant, _gpio, ds_vars >>

\* run has read the tally of callback i in this iteration and has not yet
\* called its reset_tally
AwaitsReset(i) ==
    \/ pc = "run_tally" /\ i < idx
    \/ pc = "run_functor"
    \/ pc = "run_reset" /\ i >= idx

\* the pigpio thread sees an edge on pin p: every callback registered on p counts it
Edge(p) ==
    /\ variant \in GiesVariants
    /\ \E i \in 1 .. Len(_call_backs) : _call_backs[i].gpio = p
    /\ \A i \in 1 .. Len(_call_backs) :
            _call_backs[i].gpio = p => _call_backs[i].tally < MaxTally
    /\ _call_backs' = [i \in 1 .. Len(_call_backs) |->
                         IF _call_backs[i].gpio = p
                         THEN [_call_backs[i] EXCEPT !.tally = @ + 1]
                         ELSE _call_backs[i]]
    /\ since' = [i \in 1 .. Len(since) |->
                    IF _call_backs[i].gpio = p /\ ~Idle THEN since[i] + 1 ELSE since[i]]
    /\ win' = [i \in 1 .. Len(win) |->
                  IF _call_backs[i].gpio = p THEN win[i] + 1 ELSE win[i]]
    /\ late' = (late \/ \E i \in 1 .. Len(_call_backs) :
                            _call_backs[i].gpio = p /\ AwaitsReset(i))
    /\ UNCHANGED << variant, _gpio, ds_vars, pc, op, call_vars, counter, idx, values,
                    raw, iteration_values, calls, reads, delays, resets, absent,
                    fresh, lost, result, err, conf_vars >>

(***************************************************************************)
(* DS18B20: raw readings, parsing and conversion                           *)
(* A string is a sequence of one-character strings; a line of the data     *)
(* file is the list item.rstrip().split(" ") of its tokens.  Floating      *)
(* point results are kept as exact fractions num / den.                    *)
(***************************************************************************)
None == [kind |-> "None"]
Float(n, d) == [kind |-> "float", num |-> n, den |-> d]

YES == << "Y", "E", "S" >>
NO  == << "N", "O" >>
CRC == << "c", "r", "c", "=", "d", "a" >>

RawOf(flag, t) == [ok |-> TRUE, lines |-> << << CRC, flag >>, << CRC, t >> >>]
RawYesMinus1 == RawOf(YES, << "t", "=", "-", "1" >>)
RawYes25000  == RawOf(YES, << "t", "=", "2", "5", "0", "0", "0" >>)
RawNo        == RawOf(NO,  << "t", "=", "2", "5", "0", "0", "0" >>)
RawBadInt    == RawOf(YES, << "t", "=", "x", "x" >>)
RawOneLine   == [ok |-> TRUE, lines |-> << << CRC, YES >> >>]
RawUnreadable == [ok |-> FALSE, lines |-> << >>]
RawFiles == { RawYesMinus1, RawYes25000, RawNo, RawBadInt, RawOneLine, RawUnreadable }

DigitValue == [c \in {"0", "1", "2", "3", "4", "5", "6", "7", "8", "9"} |->
                 CASE c = "0" -> 0 [] c = "1" -> 1 [] c = "2" -> 2 [] c = "3" -> 3
                   [] c = "4" -> 4 [] c = "5" -> 5 [] c = "6" -> 6 [] c = "7" -> 7
                   [] c = "8" -> 8 [] c = "9" -> 9]

RECURSIVE DigitsValue(_, _)
DigitsValue(s, acc) ==
    IF s = << >> THEN acc ELSE DigitsValue(Tail(s), 10 * acc + DigitValue[Head(s)])

\* int(s): an optional sign and at least one digit, else ValueError
py_int(s) ==
    LET signed == s # << >> /\ Head(s) \in {"-", "+"}
        body   == IF signed THEN Tail(s) ELSE s
    IN  IF body = << >> \/ \E i \in 1 .. Len(body) : body[i] \notin DOMAIN DigitValue
        THEN [err |-> "ValueError", val |-> 0]
        ELSE [err |-> NoError,
              val |-> IF Head(s) = "-" THEN 0 - DigitsValue(body, 0)
                                       ELSE DigitsValue(body, 0)]

__to_celsius(value)    == Float(value, 1000)
__to_kelvin(value)     == Float(value + 273150, 1000)
__to_fahrenheit(value) == Float(value * 9 + 160000, 5000)

Translate(translator, value) ==
    CASE translator = "__to_celsius"    -> __to_celsius(value)
      [] translator = "__to_fahrenheit" -> __to_fahrenheit(value)
      [] translator = "__to_kelvin"     -> __to_kelvin(value)

Scales == {"K", "F", "C"}
ScaleArgs == {"C", "F", "K", "X"}

\* a set_scale that stores the scale before it validates it
set_scale_StoreFirst(scale0, translator0, scale) ==
    IF scale \notin Scales
    THEN [err |-> "ValueError", scale |-> scale, translator |-> translator0]
    ELSE [err |-> NoError, scale |-> scale,
          translator |-> IF scale = "C" THEN "__to_celsius"
                         ELSE IF scale = "F" THEN "__to_fahrenheit"
                         ELSE "__to_kelvin"]

\* set_scale: [err, scale, translator] for an instance holding (scale0, translator0)
set_scale(scale0, translator0, scale) ==
    IF scale \notin Scales
    THEN [err |-> "ValueError", scale |-> scale0, translator |-> translator0]
    ELSE [err |-> NoError, scale |-> scale,
          translator |-> IF scale = "C" THEN "__to_celsius"
                         ELSE IF scale = "F" THEN "__to_fahrenheit"
                         ELSE "__to_kelvin"]

\* data = [item.rstrip().split(" ")[-1] for item in bytestream.readlines()]
LastTokens(lines) == [i \in 1 .. Len(lines) |-> lines[i][Len(lines[i])]]

\* a reader that converts the second line whatever the flag says
ReadDeviceAnyFlag(file, translator) ==
    IF ~file.ok THEN [err |-> "OSError", val |-> None]
    ELSE LET data == LastTokens(file.lines)
         IN  IF Len(data) < 2 THEN [err |-> "IndexError", val |-> None]
             ELSE LET n == py_int(SubSeq(data[2], 3, Len(data[2])))
                  IN  IF n.err # NoError THEN [err |-> n.err, val |-> None]
                      ELSE [err |-> NoError, val |-> Translate(translator, n.val)]

\* the body of `with open(device, "r")`: [err, val] for one device
ReadDevice(file, translator) ==
    IF ~file.ok THEN [err |-> "OSError", val |-> None]
    ELSE LET data == LastTokens(file.lines)
         IN  IF Len(data) < 1 THEN [err |-> "IndexError", val |-> None]
             ELSE IF data[1] = YES
             THEN IF Len(data) < 2 THEN [err |-> "IndexError", val |-> None]
                  ELSE LET n == py_int(SubSeq(data[2], 3, Len(data[2])))
                       IN  IF n.err # NoError THEN [err |-> n.err, val |-> None]
                           ELSE [err |-> NoError, val |-> Translate(translator, n.val)]
             ELSE [err |-> NoError, val |-> None]

\* a loop that records None for an endpoint that cannot be read and goes on
RECURSIVE ReadBatchSkipFailed(_, _, _)
ReadBatchSkipFailed(files, translator, acc) ==
    IF files = << >> THEN [err |-> NoError, values |-> acc]
    ELSE LET r == ReadDevice(Head(files), translator)
         IN  ReadBatchSkipFailed(Tail(files), translator, Append(acc, r.val))

\* `for device in self._devices`: the batch built so far and the first error
RECURSIVE ReadBatch(_, _, _)
ReadBatch(files, translator, acc) ==
    IF files = << >> THEN [err |-> NoError, values |-> acc]
    ELSE LET r == ReadDevice(Head(files), translator)
         IN  IF r.err # NoError THEN [err |-> r.err, values |-> acc]
             ELSE ReadBatch(Tail(files), translator, Append(acc, r.val))

(***************************************************************************)
(* run / run_endless                                                       *)
(***************************************************************************)
\* a loop test that also stops on a negative budget
LoopWhilePositive(it) == it > 0

\* `while iteration != 0`
LoopContinues(it) == it # 0

\* a decrement that leaves the last unit of the budget in place
DecrementAboveOne(it) == IF it > 1 THEN it - 1 ELSE it

\* `if iteration > 0: iteration -= 1`
Decrement(it) == IF it > 0 THEN it - 1 ELSE it

\* an entry that goes straight to the loop in every variant
RunFirstStepLoop == "run_while"

\* giesomat.py resets the tallies and sleeps before the loop; sensor.py and
\* ds18b20.py enter the loop at once
RunFirstStep == IF variant = "giesomat" THEN "run_reset0" ELSE "run_while"

\* the functor run_endless hands to run: sensor.py forwards only **kwargs
EndlessFunctor(f) == IF variant = "sensor" THEN "default_functor" ELSE f

\* entry of run(iteration, functor, **kwargs)
run_entry(n, f, kw) ==
    /\ iteration' = n
    /\ n0' = n
    /\ functor' = f
    /\ kwargs' = kw
    /\ counter' = 0
    /\ idx' = 1
    /\ values' = << >>
    /\ raw' = << >>
    /\ fresh' = << >>
    /\ iteration_values' = << >>
    /\ calls' = 0
    /\ reads' = 0
    /\ delays' = 0
    /\ resets' = 0
    /\ absent' = FALSE
    /\ lost' = FALSE
    /\ since' = Zeros(Len(_call_backs))
    /\ late' = FALSE
    /\ err' = NoError
    /\ pc' = RunFirstStep

Run(n, f, kw) ==
    /\ Idle
    /\ op' = "run"
    /\ supplied' = [functor |-> f, kwargs |-> kw]
    /\ run_entry(n, f, kw)
    /\ result' = NoResult
    /\ ClearConf
    /\ UNCHANGED << variant, gies_vars, ds_vars >>

RunEndless(f, kw) ==
    /\ Idle
    /\ op' = "run_endless"
    /\ supplied' = [functor |-> f, kwargs |-> kw]
    /\ run_entry(0 - 1, EndlessFunctor(f), kw)
    /\ result' = NoResult
    /\ ClearConf
    /\ UNCHANGED << variant, gies_vars, ds_vars >>

\* the batch holds the absent value (only DS18B20 batches can)
HoldsNone(batch) ==
    variant = "ds18b20" /\ \E i \in 1 .. Len(batch) : batch[i] = None

\* `for call in self._call_backs: call.reset_tally()`, one callback per step
ResetTallies(next) ==
    /\ IF idx > Len(_call_backs)
       THEN /\ pc' = next
            /\ idx' = 1
            /\ resets' = Inc(resets)
            /\ lost' = (lost \/ late)
            /\ late' = FALSE
            /\ UNCHANGED << _call_backs, since, win >>
       ELSE /\ _call_backs' = reset_tally(_call_backs, idx)
            /\ since' = [since EXCEPT ![idx] = 0]
            /\ win' = [win EXCEPT ![idx] = 0]
            /\ UNCHANGED << late, lost >>
            /\ idx' = idx + 1
            /\ pc' = pc
            /\ resets' = resets
    /\ UNCHANGED << variant, _gpio, ds_vars, op, call_vars, counter, values, raw,
                    iteration_values, result, calls, reads, delays, absent, fresh,
                    err, conf_vars >>

\* `time.sleep(...)`
Sleep(next) ==
    /\ pc' = next
    /\ delays' = Inc(delays)
    /\ UNCHANGED << variant, gies_vars, ds_vars, op, call_vars, counter, idx, values,
                    raw, iteration_values, result, calls, reads, resets, absent, lost,
                    since, late, fresh, err, conf_vars >>

RunInitReset == pc = "run_reset0" /\ ResetTallies("run_sleep0")

RunInitSleep == pc = "run_sleep0" /\ Sleep("run_while")

RunWhile ==
    /\ pc = "run_while"
    /\ IF LoopContinues(iteration)
       THEN /\ iteration' = Decrement(iteration)
            /\ pc' = IF variant \in GiesVariants THEN "run_tally" ELSE "run_read"
       ELSE /\ iteration' = iteration
            /\ pc' = "done"
    /\ idx' = 1
    /\ values' = << >>
    /\ raw' = << >>
    /\ fresh' = << >>
    /\ since' = IF LoopContinues(iteration) THEN since ELSE Zeros(Len(since))
    /\ late' = (LoopContinues(iteration) /\ late)
    /\ lost' = (LoopContinues(iteration) /\ lost)
    /\ UNCHANGED << variant, gies_vars, ds_vars, op, supplied, n0, functor, kwargs,
                    counter, iteration_values, result, calls, reads, delays, resets,
                    absent, err, conf_vars >>

\* `[call.tally() for call in self._call_backs]`, one callback per step
ReadTallies(next) ==
    /\ IF idx > Len(_call_backs)
       THEN /\ pc' = next
            /\ idx' = 1
            /\ reads' = Inc(reads)
            /\ UNCHANGED << values, fresh >>
       ELSE /\ values' = Append(values, tally(_call_backs, idx))
            /\ fresh' = Append(fresh, since[idx])
            /\ idx' = idx + 1
            /\ pc' = pc
            /\ reads' = reads
    /\ UNCHANGED << variant, gies_vars, ds_vars, op, call_vars, counter, raw,
                    iteration_values, result, calls, delays, resets, absent, lost, since,
                    late, err, conf_vars >>

RunTally == pc = "run_tally" /\ ReadTallies("run_functor")

\* DS18B20: the `for device in self._devices` block; the files are what the
\* sensors hold at this moment
ReadDevices(files, next) ==
    LET r == ReadBatch(files, _translator, << >>)
    IN  /\ raw' = files
        /\ values' = r.values
        /\ err' = r.err
        /\ pc' = IF r.err = NoError THEN next ELSE "raised"
        /\ reads' = IF r.err = NoError THEN Inc(reads) ELSE reads
        /\ UNCHANGED << variant, gies_vars, ds_vars, op, call_vars, counter, idx,
                        iteration_values, result, calls, delays, resets, absent, lost,
                        since, late, fresh, conf_vars >>

RunRead ==
    /\ pc = "run_read"
    /\ \E files \in [1 .. Len(_devices) -> RawFiles] : ReadDevices(files, "run_functor")

\* `functor(values, **kwargs)` returns; the batch is not used again
RunFunctor ==
    /\ pc = "run_functor"
    /\ calls' = Inc(calls)
    /\ absent' = (absent \/ HoldsNone(values))
    /\ idx' = 1
    /\ values' = << >>
    /\ raw' = << >>
    /\ fresh' = << >>
    /\ pc' = IF variant \in GiesVariants THEN "run_reset" ELSE "run_sleep"
    /\ UNCHANGED << variant, gies_vars, ds_vars, op, call_vars, counter,
                    iteration_values, result, reads, delays, resets, since, late, lost, err,
                    conf_vars >>

\* `functor(values, **kwargs)` raises: run does not catch it
RunFunctorRaises ==
    /\ pc = "run_functor"
    /\ calls' = Inc(calls)
    /\ err' = "HandlerError"
    /\ pc' = "raised"
    /\ since' = Zeros(Len(since))
    /\ late' = FALSE
    /\ lost' = FALSE
    /\ UNCHANGED << variant, gies_vars, ds_vars, op, call_vars, counter, idx, values,
                    raw, iteration_values, result, reads, delays, resets, absent,
                    fresh, conf_vars >>

RunResetTally == pc = "run_reset" /\ ResetTallies("run_sleep")

RunSleep == pc = "run_sleep" /\ Sleep("run_while")

(***************************************************************************)
(* get                                                                     *)
(***************************************************************************)
GetFirstStep == IF variant = "giesomat" THEN "get_reset0" ELSE "get_for"

\* the step after the batch is complete: giesomat.py and ds18b20.py append it
\* at once, sensor.py resets the tallies and sleeps first
AfterBatch == IF variant = "sensor" THEN "get_reset" ELSE "get_append"

\* the step after iteration_values.append(values)
AfterAppend == IF variant = "giesomat" THEN "get_reset" ELSE "get_for"

\* the step after time.sleep
AfterGetSleep == IF variant = "sensor" THEN "get_append" ELSE "get_for"

\* giesomat.py and ds18b20.py return the batch itself when iteration == 1
get_result(n, ivs) ==
    IF variant # "sensor" /\ n = 1
    THEN [kind |-> "batch", value |-> ivs[1]]
    ELSE [kind |-> "list", value |-> ivs]

Get(n) ==
    /\ Idle
    /\ op' = "get"
    /\ supplied' = [functor |-> "default_functor", kwargs |-> "{}"]
    /\ iteration' = n
    /\ n0' = n
    /\ functor' = "default_functor"
    /\ kwargs' = "{}"
    /\ counter' = 0
    /\ idx' = 1
    /\ values' = << >>
    /\ raw' = << >>
    /\ fresh' = << >>
    /\ iteration_values' = << >>
    /\ calls' = 0
    /\ reads' = 0
    /\ delays' = 0
    /\ resets' = 0
    /\ absent' = FALSE
    /\ lost' = FALSE
    /\ since' = Zeros(Len(_call_backs))
    /\ late' = FALSE
    /\ err' = NoError
    /\ pc' = GetFirstStep
    /\ result' = NoResult
    /\ ClearConf
    /\ UNCHANGED << variant, gies_vars, ds_vars >>

GetInitReset == pc = "get_reset0" /\ ResetTallies("get_sleep0")

GetInitSleep == pc = "get_sleep0" /\ Sleep("get_for")

\* `for _ in range(iteration)` and the return after it
GetFor ==
    /\ pc = "get_for"
    /\ IF counter < iteration
       THEN /\ counter' = counter + 1
            /\ pc' = IF variant \in GiesVariants THEN "get_tally" ELSE "get_read"
            /\ values' = << >>
            /\ raw' = << >>
            /\ fresh' = << >>
            /\ result' = result
       ELSE /\ result' = get_result(iteration, iteration_values)
            /\ pc' = "done"
            /\ UNCHANGED << counter, values, raw, fresh >>
    /\ idx' = 1
    /\ since' = IF counter < iteration THEN since ELSE Zeros(Len(since))
    /\ late' = (counter < iteration /\ late)
    /\ UNCHANGED << variant, gies_vars, ds_vars, op, call_vars, iteration_values,
                    calls, reads, delays, resets, absent, lost, err, conf_vars >>

GetTally == pc = "get_tally" /\ ReadTallies(AfterBatch)

GetRead ==
    /\ pc = "get_read"
    /\ \E files \in [1 .. Len(_devices) -> RawFiles] : ReadDevices(files, AfterBatch)

GetAppend ==
    /\ pc = "get_append"
    /\ iteration_values' = Append(iteration_values, values)
    /\ absent' = (absent \/ HoldsNone(values))
    /\ pc' = AfterAppend
    /\ idx' = 1
    /\ UNCHANGED << variant, gies_vars, ds_vars, op, call_vars, counter, values, raw,
                    result, calls, reads, delays, resets, since, late, lost, fresh, err,
                    conf_vars >>

GetResetTally == pc = "get_reset" /\ ResetTallies("get_sleep")

GetSleep == pc = "get_sleep" /\ Sleep(AfterGetSleep)

(***************************************************************************)
(* DS18B20: device selection and construction                              *)
(***************************************************************************)
MASTER == "w1_bus_master1"
NoneName == "<None>"            \* the element None inside a device list

Str(v)      == [type |-> "str", value |-> v]
DirEntry(v) == [type |-> "DirEntry", value |-> v]

\* Python == between two objects: values of different types are never equal
PyEq(a, b) == a.type = b.type /\ a.value = b.value

Dir(name)  == [name |-> name, is_dir |-> TRUE]
File(name) == [name |-> name, is_dir |-> FALSE]

\* What the file system holds when a configuration call looks at it:
\*   exists    the directory self._device_path exists
\*   entries   os.scandir(self._device_path), in its order
\*   slaves    the entries that hold a w1_slave data file
\*   reprDirs  the names d for which "<str(self._devices)>/<d>" is a directory
FsMissing == [exists |-> FALSE, entries |-> << >>, slaves |-> {}, reprDirs |-> {}]
FsNoDevice == [exists |-> TRUE, entries |-> << Dir(MASTER) >>, slaves |-> {},
               reprDirs |-> {}]
FsTwo == [exists |-> TRUE, entries |-> << Dir(MASTER), Dir("28-a"), Dir("28-b") >>,
          slaves |-> {"28-a", "28-b"}, reprDirs |-> {}]
FsOne == [exists |-> TRUE, entries |-> << Dir("28-b"), File("README"), Dir("28-a") >>,
          slaves |-> {"28-a"}, reprDirs |-> {"28-a", "28-b"}]
FsLayouts == { FsMissing, FsNoDevice, FsTwo, FsOne }

\* the entries of a directory "<str(self._devices)>/<d>" that exists
ReprDirEntries == { DirEntry("w1_slave") }

DevNone      == [kind |-> "None"]
DevStr(n)    == [kind |-> "str", name |-> n]
DevList(l)   == [kind |-> "list", items |-> l]
DeviceArgs == { DevNone, DevStr("28-a"), DevList(<< >>), DevList(<< "28-a" >>),
                DevList(<< "28-b", "28-a" >>), DevList(<< "28-a", "28-z" >>) }
DeviceLists == { << "28-a" >>, << "28-a", "28-b" >> }

\* the characters a `for dev in devices` yields when devices is a str
Chars(name) == IF name = "28-a" THEN << "2", "8", "-", "a" >> ELSE << name >>

InList(x, l) == \E i \in 1 .. Len(l) : l[i] = x

IsDevice(e) == e.is_dir /\ e.name # MASTER

\* [dev.name for dev in os.scandir(path) if dev.is_dir() and dev.name != "w1_bus_master1"]
one_wire_devices(fs) ==
    LET kept == SelectSeq(fs.entries, IsDevice)
    IN  [i \in 1 .. Len(kept) |-> kept[i].name]

\* the devices the code is meant to find: device directories holding w1_slave
Discovered(fs) ==
    IF fs.exists
    THEN { fs.entries[i].name : i \in { j \in 1 .. Len(fs.entries) :
               IsDevice(fs.entries[j]) /\ fs.entries[j].name \in fs.slaves } }
    ELSE {}

\* [dev for dev in one_wire_devices
\*      if "w1_slave" in (item for item in os.scandir("{}/{}".format(self._devices, dev)))]
\* has: self._devices is set.  acc = [err, devices, scans]
RECURSIVE ActiveDevices(_, _, _, _)
ActiveDevices(devs, has, fs, acc) ==
    IF devs = << >> THEN acc
    ELSE IF ~has THEN [acc EXCEPT !.err = "AttributeError"]
    ELSE IF Head(devs) \notin fs.reprDirs
    THEN [acc EXCEPT !.err = "FileNotFoundError(scandir)", !.scans = @ + 1]
    ELSE LET found == \E item \in ReprDirEntries : PyEq(Str("w1_slave"), item)
         IN  ActiveDevices(Tail(devs), has, fs,
                 [acc EXCEPT !.devices = IF found THEN Append(@, Head(devs)) ELSE @,
                             !.scans = @ + 1])

RECURSIVE Keep(_, _)
Keep(l, allowed) ==
    IF l = << >> THEN << >>
    ELSE IF InList(Head(l), allowed) THEN << Head(l) >> \o Keep(Tail(l), allowed)
    ELSE Keep(Tail(l), allowed)

RECURSIVE Drop(_, _)
Drop(l, present) ==
    IF l = << >> THEN << >>
    ELSE IF InList(Head(l), present) THEN Drop(Tail(l), present)
    ELSE << Head(l) >> \o Drop(Tail(l), present)

\* set_devices(devices) on an instance whose _devices is `cur` (set iff `has`):
\* [err, has, devices, missing, scans]; devices is _devices afterwards
set_devices(has, cur, devices, fs) ==
    LET device_list == IF devices.kind = "list" THEN devices.items
                       ELSE IF devices.kind = "str" THEN << devices.name >>
                       ELSE << NoneName >>
        same(e, n) == [err |-> e, has |-> has, devices |-> cur, missing |-> << >>,
                       scans |-> n]
    IN  IF ~fs.exists THEN same("FileNotFoundError(scandir)", 1)
        ELSE
        LET act == ActiveDevices(one_wire_devices(fs), has, fs,
                                 [err |-> NoError, devices |-> << >>, scans |-> 1])
        IN  IF act.err # NoError THEN same(act.err, act.scans)
            ELSE
            \* `device_list is not None` holds for every argument: None was wrapped
            LET chosen == Keep(act.devices, device_list)
                out(e, m) == [err |-> e, has |-> TRUE, devices |-> chosen,
                              missing |-> m, scans |-> act.scans]
            IN  IF Len(chosen) # Len(device_list)
                THEN IF devices.kind = "None" THEN out("TypeError", << >>)
                     ELSE LET names == IF devices.kind = "str" THEN Chars(devices.name)
                                       ELSE devices.items
                              missing_devices == Drop(names, chosen)
                          IN  IF InList(NoneName, missing_devices)
                              THEN out("TypeError", << >>)
                              ELSE out("FileNotFoundError(Provided devices)",
                                       missing_devices)
                ELSE IF chosen = << >>
                THEN out("FileNotFoundError(No 1-wire device found!)", << >>)
                ELSE out(NoError, << >>)

\* DS18B20(device, scale): [err, devices, scale, translator, missing, scans]
ds_init(device, scale, fs) ==
    LET sc == set_scale("", "", scale)
    IN  IF sc.err # NoError
        THEN [err |-> sc.err, devices |-> << >>, scale |-> sc.scale,
              translator |-> sc.translator, missing |-> << >>, scans |-> 0]
        ELSE LET dev == IF device.kind = "list" THEN device
                        ELSE IF device.kind = "str" THEN DevList(<< device.name >>)
                        ELSE DevList(<< NoneName >>)
                 sd == set_devices(FALSE, << >>, dev, fs)
             IN  [err |-> sd.err, devices |-> sd.devices, scale |-> sc.scale,
                  translator |-> sc.translator, missing |-> sd.missing,
                  scans |-> sd.scans]

\* d = DS18B20(device, scale): the instance is replaced only if __init__ returns
Construct(device, scale, fs) ==
    /\ variant = "ds18b20"
    /\ Idle
    /\ LET r == ds_init(device, scale, fs)
       IN  /\ err' = r.err
           /\ missing' = r.missing
           /\ scans' = r.scans
           /\ _devices' = IF r.err = NoError THEN r.devices ELSE _devices
           /\ _scale' = IF r.err = NoError THEN r.scale ELSE _scale
           /\ _translator' = IF r.err = NoError THEN r.translator ELSE _translator
    /\ pc' = "idle"
    /\ op' = "__init__"
    /\ request' = [kind |-> "init", device |-> device, scale |-> scale]
    /\ listing' = fs
    /\ ClearLocals
    /\ UNCHANGED << variant, gies_vars, since, late >>

SetDevices(devices, fs) ==
    /\ variant = "ds18b20"
    /\ Idle
    /\ LET r == set_devices(TRUE, _devices, devices, fs)
       IN  /\ err' = r.err
           /\ missing' = r.missing
           /\ scans' = r.scans
           /\ _devices' = r.devices
    /\ pc' = "idle"
    /\ op' = "set_devices"
    /\ request' = devices
    /\ listing' = fs
    /\ ClearLocals
    /\ UNCHANGED << variant, gies_vars, _scale, _translator, since, late >>

SetScale(scale) ==
    /\ variant = "ds18b20"
    /\ Idle
    /\ LET r == set_scale(_scale, _translator, scale)
       IN  /\ err' = r.err
           /\ _scale' = r.scale
           /\ _translator' = r.translator
    /\ pc' = "idle"
    /\ op' = "set_scale"
    /\ request' = [kind |-> "scale", scale |-> scale]
    /\ listing' = NoListing
    /\ missing' = << >>
    /\ scans' = 0
    /\ ClearLocals
    /\ UNCHANGED << variant, gies_vars, _devices, since, late >>

(***************************************************************************)
(* Specification                                                           *)
(***************************************************************************)
LocalsInit ==
    /\ supplied = [functor |-> "default_functor", kwargs |-> "{}"]
    /\ iteration = 0
    /\ n0 = 0
    /\ functor = "default_functor"
    /\ kwargs = "{}"
    /\ counter = 0
    /\ idx = 1
    /\ values = << >>
    /\ raw = << >>
    /\ iteration_values = << >>
    /\ result = NoResult
    /\ calls = 0
    /\ reads = 0
    /\ delays = 0
    /\ resets = 0
    /\ absent = FALSE
    /\ lost = FALSE
    /\ fresh = << >>
    /\ err = NoError
    /\ listing = NoListing
    /\ missing = << >>
    /\ scans = 0
    /\ pc = "idle"

\* GiesOMat(gpio): set_gpio, then reset
InitGies ==
    /\ variant \in GiesVariants
    /\ op = "__init__"
    /\ \E g \in GpioArgs :
          /\ request = g
          /\ _gpio = set_gpio(g)
          /\ _call_backs = reset(set_gpio(g))
          /\ since = Zeros(Len(set_gpio(g)))
          /\ win = Zeros(Len(set_gpio(g)))
          /\ late = FALSE
    /\ _devices = << >>
    /\ _scale = "C"
    /\ _translator = "__to_celsius"

\* DS18B20.__init__ always raises (see set_devices and C9), so get, run and the
\* setters are exercised on an instance whose attributes were assigned
\* directly, as a subclass or a test double does
InitDS ==
    /\ variant = "ds18b20"
    /\ op = "assigned"
    /\ request = NoRequest
    /\ _devices \in DeviceLists
    /\ \E scale \in Scales :
          /\ _scale = set_scale("", "", scale).scale
          /\ _translator = set_scale("", "", scale).translator
    /\ _gpio = << >>
    /\ _call_backs = << >>
    /\ since = << >>
    /\ win = << >>
    /\ late = FALSE

Init == LocalsInit /\ (InitGies \/ InitDS)

RunNext ==
    \/ RunInitReset
    \/ RunInitSleep
    \/ RunWhile
    \/ RunTally
    \/ RunRead
    \/ RunFunctor
    \/ RunFunctorRaises
    \/ RunResetTally
    \/ RunSleep

GetNext ==
    \/ GetInitReset
    \/ GetInitSleep
    \/ GetFor
    \/ GetTally
    \/ GetRead
    \/ GetAppend
    \/ GetResetTally
    \/ GetSleep

Next ==
    \/ \E g \in GpioArgs : SetGpio(g)
    \/ Reset
    \/ \E p \in Pins : Edge(p)
    \/ \E d \in DeviceArgs, s \in ScaleArgs, fs \in FsLayouts : Construct(d, s, fs)
    \/ \E d \in DeviceArgs, fs \in FsLayouts : SetDevices(d, fs)
    \/ \E s \in ScaleArgs : SetScale(s)
    \/ \E n \in Iterations, a \in CallArgs : Run(n, a[1], a[2])
    \/ \E a \in CallArgs : RunEndless(a[1], a[2])
    \/ \E n \in GetArgs : Get(n)
    \/ RunNext
    \/ GetNext

Spec == Init /\ [][Next]_vars

\* the caller's thread keeps executing the method it is in
FairSpec == Spec /\ WF_vars(RunNext) /\ WF_vars(GetNext)

(***************************************************************************)
(* Properties                                                              *)
(***************************************************************************)
InRun == op \in {"run", "run_endless"}

\* C1: run(n, handler) with n >= 0 invokes the handler exactly n times and
\* then returns, in every variant, when nothing raises: the handler is never
\* invoked more than n times, the budget left at the loop test is n minus the
\* invocations made, and at the return exactly n batches were sampled and
\* handed over; run(0) samples nothing and invokes nothing.
C1_RunInvokesHandlerNTimes ==
    (op = "run" /\ n0 >= 0) =>
        /\ calls <= n0
        /\ reads <= n0
        /\ (pc = "run_while" => iteration = n0 - calls)
        /\ (pc = "done" => calls = n0 /\ reads = n0)

C1_Witness ==
    /\ variant = "ds18b20"
    /\ op = "run"
    /\ pc = "done"
    /\ n0 = MaxIter
    /\ calls = MaxIter

\* C3: with a negative iteration count run never returns: the budget keeps
\* its value, the loop never reaches the return, and as long as nothing
\* raises the handler is invoked again and again.
C3_NeverStops == (InRun /\ n0 < 0) => (pc # "done" /\ iteration = n0)

C3_Running == InRun /\ n0 < 0 /\ ~Idle

C3_NegativeRunsForever ==
    /\ [] C3_NeverStops
    /\ (<>[] C3_Running) => []<><< RunFunctor >>_vars

C3_Witness ==
    /\ variant = "giesomat"
    /\ op = "run"
    /\ n0 = 0 - 2
    /\ pc = "run_sleep"
    /\ calls = MaxCalls

\* the number of active endpoints: len(gpio()) / len(devices())
ActiveCount == IF variant \in GiesVariants THEN Len(gpio) ELSE Len(_devices)

\* the batches the last get returned
ReturnedBatches == IF result.kind = "batch" THEN << result.value >> ELSE result.value

\* C2: every batch run hands to the handler, and every batch get returns,
\* has one value per active endpoint: its length is len(gpio()) for GiesOMat
\* and len(devices()) for DS18B20, whatever calls came before.
C2_BatchPerActiveEndpoint ==
    /\ pc = "run_functor" => Len(values) = ActiveCount
    /\ (op = "get" /\ pc = "done") =>
           \A i \in 1 .. Len(ReturnedBatches) : Len(ReturnedBatches[i]) = ActiveCount

\* C4: run_endless(handler, options) is run(-1, handler, options): the
\* handler that run invokes is the one given to run_endless, with the
\* options given to run_endless.
C4_RunEndlessIsRunMinusOne ==
    op = "run_endless" =>
        /\ n0 = 0 - 1
        /\ functor = supplied.functor
        /\ kwargs = supplied.kwargs

\* C5: in the pulse variant every value run or get reports is the number of
\* edges counted in its own sampling window of the current call: edges
\* counted before the call, or before the last tally reset, are not in it.
C5_WindowOnly ==
    (variant \in GiesVariants /\ ~Idle) =>
        \A i \in 1 .. Len(values) : values[i] = fresh[i]

\* C6: in DS18B20.get and DS18B20.run a reading flagged YES whose value
\* token is t=-1 yields None, whatever the scale.
C6_MinusOneIsAbsent ==
    (variant = "ds18b20" /\ ~Idle) =>
        \A i \in 1 .. Len(values) : raw[i] = RawYesMinus1 => values[i] = None

\* the scale argument of the last DS18B20(...) or set_scale(...) call
ScaleRequested == request.scale

ScaleCall == variant = "ds18b20" /\ op \in {"__init__", "set_scale"}

\* C7 (state part): the scale of an instance is C, F or K and its conversion
\* is the one of that scale; a constructor or set_scale call given another
\* symbol ends with ValueError before any directory is listed.
C7_ScaleValid ==
    variant = "ds18b20" =>
        /\ _scale \in {"C", "F", "K"}
        /\ (_scale = "C" => _translator = "__to_celsius")
        /\ (_scale = "F" => _translator = "__to_fahrenheit")
        /\ (_scale = "K" => _translator = "__to_kelvin")
        /\ (ScaleCall /\ ScaleRequested \notin {"C", "F", "K"}) =>
               (err = "ValueError" /\ scans = 0)

\* C7 (step part): a call that ends with ValueError leaves scale and
\* conversion as they were.
C7_RejectedKeeps ==
    (variant = "ds18b20" /\ err' = "ValueError" /\ op' \in {"__init__", "set_scale"}) =>
        (_scale' = _scale /\ _translator' = _translator)

\* C7: an invalid scale symbol is always rejected before any enumeration or
\* reading, scale() is always one of C, F, K with the matching conversion,
\* and a rejected set_scale changes neither.
C7_InvalidScaleRejected == [] C7_ScaleValid /\ [][C7_RejectedKeeps]_vars

C7_Witness ==
    /\ variant = "ds18b20"
    /\ op = "set_scale"
    /\ ScaleRequested = "X"
    /\ err = "ValueError"
    /\ _scale = "F"
    /\ _translator = "__to_fahrenheit"

\* the device names the last DS18B20(...) / set_devices(...) call asked for
Requested ==
    LET d == IF op = "__init__" THEN request.device ELSE request
    IN  IF d.kind = "list" THEN { d.items[i] : i \in 1 .. Len(d.items) }
        ELSE IF d.kind = "str" THEN { d.name }
        ELSE {}

RequestedNone == (IF op = "__init__" THEN request.device ELSE request).kind = "None"

\* a device selection whose scale (if any) is valid and whose device
\* directory could be listed
SelectionCall ==
    /\ variant = "ds18b20"
    /\ op \in {"__init__", "set_devices"}
    /\ (op = "__init__" => request.scale \in Scales)
    /\ listing.exists

Range(l) == { l[i] : i \in 1 .. Len(l) }

\* C8: a device selection that asks for a name outside the discovered set
\* fails with the "Provided devices ... cannot be found" FileNotFoundError,
\* which names exactly the requested names that are not discovered.
C8_MissingDevicesNamed ==
    (SelectionCall /\ Requested \ Discovered(listing) # {}) =>
        /\ err = "FileNotFoundError(Provided devices)"
        /\ Range(missing) = Requested \ Discovered(listing)

\* C9: a device selection whose requested names are all discovered succeeds
\* and devices() is then exactly the requested devices; a selection given
\* None succeeds with every discovered device.
C9_SelectionSucceeds ==
    /\ (SelectionCall /\ Requested # {} /\ Requested \subseteq Discovered(listing)) =>
           (err = NoError /\ Range(_devices) = Requested)
    /\ (SelectionCall /\ RequestedNone /\ Discovered(listing) # {}) =>
           (err = NoError /\ Range(_devices) = Discovered(listing))

\* C10: after a constructor, set_devices or set_gpio call that succeeded the
\* set of active endpoints is not empty.
C10_ActiveNeverEmpty ==
    (op \in {"__init__", "set_devices", "set_gpio"} /\ err = NoError) =>
        ActiveCount > 0

(***************************************************************************)
(* C11: inside run the events of each iteration occur in the order         *)
(* sample -> handler -> idle delay, and the delay follows every batch, the *)
(* last one included: run(n) with n >= 1 has slept after the n-th handler  *)
(* call when it returns.  The temperature variant sleeps before no sample; *)
(* giesomat.py performs one tally reset loop and one delay before its      *)
(* first sample.  In counters: the k-th sample is taken after k-1 handler  *)
(* calls and k-1 loop delays, the k-th handler call after k samples and    *)
(* k-1 loop delays, and the k-th loop delay after k handler calls.         *)
(***************************************************************************)
\* delays giesomat.py performs before the loop
C11_Before == IF variant = "giesomat" THEN 1 ELSE 0

\* the ghost counters have not saturated
C11_Counted == reads < MaxCalls /\ delays < MaxCalls /\ resets < MaxCalls

C11_SampleHandlerDelay ==
    (InRun /\ C11_Counted) =>
        /\ pc = "run_reset0" => reads = 0 /\ delays = 0 /\ resets = 0
        /\ pc = "run_sleep0" => reads = 0 /\ delays = 0 /\ resets = 1
        /\ pc \in {"run_while", "run_tally", "run_read"} =>
              reads = calls /\ delays = calls + C11_Before
        /\ pc = "run_functor" =>
              reads = calls + 1 /\ delays = calls + C11_Before
        /\ pc \in {"run_reset", "run_sleep"} =>
              reads = calls /\ delays + 1 = calls + C11_Before
        /\ (pc = "done" /\ n0 >= 1) =>
              calls = n0 /\ delays = n0 + C11_Before
        /\ (variant = "giesomat" /\ pc \in {"run_while", "run_tally", "run_functor"}) =>
              resets = calls + 1
        /\ (variant = "ds18b20" /\ pc = "run_read" /\ reads = 0) => delays = 0

\* giesomat.py's run(2) has returned: three reset loops and three delays
C11_Witness ==
    /\ variant = "giesomat"
    /\ op = "run"
    /\ n0 = 2
    /\ pc = "done"
    /\ calls = 2
    /\ delays = 3
    /\ resets = 3
    /\ Len(_call_backs) = 2

(***************************************************************************)
(* C12: a failure raised during a poll iteration ends the whole run call   *)
(* with that failure and is never recovered.  After a failure of open,     *)
(* of the parse or of the handler: no further endpoint is read (the batch  *)
(* stops before the first endpoint that fails), the handler is not invoked *)
(* with a partial batch (it only ever sees a batch whose endpoints were    *)
(* all read), no later batch is produced and no idle delay is performed    *)
(* (samples, handler calls and delays stay as they were at the failure     *)
(* until the caller starts another operation).                             *)
(***************************************************************************)
\* reading `file` raises
C12_Fails(file) == ReadDevice(file, _translator).err # NoError

C12_Raised ==
    InRun =>
        /\ (err # NoError) <=> (pc = "raised")
        /\ (variant = "ds18b20" /\ pc = "run_functor") =>
              /\ Len(raw) = Len(_devices)
              /\ \A i \in 1 .. Len(raw) : ~C12_Fails(raw[i])
        /\ (pc = "raised" /\ err # "HandlerError") =>
              /\ variant = "ds18b20"
              /\ Len(values) < Len(raw)
              /\ \A i \in 1 .. Len(values) : ~C12_Fails(raw[i])
              /\ C12_Fails(raw[Len(values) + 1])
              /\ err = ReadDevice(raw[Len(values) + 1], _translator).err
              /\ calls = reads
              /\ delays = reads
        /\ (pc = "raised" /\ err = "HandlerError") =>
              /\ calls = reads
              /\ C11_Counted => delays + 1 = calls + C11_Before

\* once raised, nothing of the call happens any more
C12_NoStepAfter ==
    (InRun /\ pc = "raised") =>
        \/ pc' = "raised" /\ UNCHANGED << op, err, calls, reads, delays, resets, values >>
        \/ pc' = "idle"
        \/ op' = "get"
        \/ InRun' /\ calls' = 0 /\ reads' = 0 /\ delays' = 0 /\ err' = NoError

C12_FailureEndsRun == [] C12_Raised /\ [][C12_NoStepAfter]_vars

\* the second of two endpoints fails to parse in the second iteration
C12_Witness ==
    /\ variant = "ds18b20"
    /\ op = "run"
    /\ pc = "raised"
    /\ err = "ValueError"
    /\ raw = << RawYes25000, RawBadInt >>
    /\ Len(values) = 1
    /\ calls = 1
    /\ reads = 1
    /\ delays = 1

(***************************************************************************)
(* C13: in DS18B20.get and DS18B20.run an endpoint whose first-line flag   *)
(* token is not YES contributes None at its own position in the batch and  *)
(* raises no error: the other endpoints of the batch are still read and    *)
(* converted, the handler (or get's result) receives the full-length       *)
(* batch, and polling continues with the next iteration.                   *)
(***************************************************************************)
\* the file can be read and the last token of its first line is not YES
C13_NotReady(file) ==
    /\ file.ok
    /\ Len(file.lines) >= 1
    /\ LastTokens(file.lines)[1] # YES

C13_InCall == op \in {"run", "run_endless", "get"}

C13_AbsentInPlace ==
    (variant = "ds18b20" /\ C13_InCall) =>
        /\ pc \in {"run_functor", "get_append"} =>
              /\ Len(raw) = Len(_devices)
              /\ Len(values) = Len(_devices)
              /\ \A i \in 1 .. Len(values) :
                    IF C13_NotReady(raw[i])
                    THEN values[i] = None
                    ELSE values[i].kind = "float"
        /\ (pc = "raised" /\ err # "HandlerError") =>
              ~C13_NotReady(raw[Len(values) + 1])
        /\ (absent /\ pc = "done" /\ InRun /\ n0 >= 0) => calls = n0
        /\ (absent /\ pc = "done" /\ op = "get") =>
              /\ reads = n0
              /\ result.kind = IF n0 = 1 THEN "batch" ELSE "list"

\* a batch <<None, 25.0>> went to the handler and polling went on: the next
\* batch, read with both sensors ready, is at the handler
C13_Witness ==
    /\ variant = "ds18b20"
    /\ op = "run"
    /\ pc = "run_functor"
    /\ absent
    /\ calls = 1
    /\ raw = << RawYes25000, RawYesMinus1 >>
    /\ Len(values) = 2

(***************************************************************************)
(* C14: in the pulse variant's run, under every interleaving of the edge   *)
(* callbacks with the loop's steps, no counted edge is lost: for each pin  *)
(* the sum of the values reported to the handler equals the number of      *)
(* edges that occurred between the initial tally reset and the last tally  *)
(* read, i.e. an edge arriving between a tally read and the following      *)
(* reset_tally is still reported in some batch.  The sum falls short       *)
(* exactly when a reset_tally loop that precedes the last read wiped an    *)
(* edge that no read had seen, which is what `lost` records; so the claim  *)
(* says that no batch reaches the handler with `lost` set.                 *)
(***************************************************************************)
C14_NoEdgeLost ==
    (InRun /\ variant \in GiesVariants /\ pc = "run_functor") => ~lost

(***************************************************************************)
(* C14 as the code has it: every value run reports is the number of edges  *)
(* its callback counted since that callback's last reset_tally and up to   *)
(* the tally read, under every interleaving; an edge that arrives after    *)
(* the read and before the reset_tally (also while the handler runs) is    *)
(* wiped by that reset_tally and is in no batch.                           *)
(***************************************************************************)
\* run reads the tally of the callback at idx
C14_ReadStep ==
    /\ InRun
    /\ pc = "run_tally"
    /\ pc' = "run_tally"
    /\ idx' = idx + 1

C14_ReadsWindow == C14_ReadStep => values' = Append(values, win[idx])

\* with the batch complete, `late` tells whether a tally has moved on
C14_LateCounted ==
    (InRun /\ variant \in GiesVariants /\ pc = "run_functor") =>
        /\ Len(values) = Len(_call_backs)
        /\ late <=> \E i \in 1 .. Len(values) : tally(_call_backs, i) > values[i]
        /\ \A i \in 1 .. Len(values) : tally(_call_backs, i) >= values[i]

C14_WindowReported == [] C14_LateCounted /\ [][C14_ReadsWindow]_vars

\* giesomat.py, one pin: an edge that arrived after the first read was wiped,
\* and the second batch, read after an empty window, reports 0
C14_Witness ==
    /\ variant = "giesomat"
    /\ op = "run"
    /\ pc = "run_functor"
    /\ Len(_call_backs) = 1
    /\ lost
    /\ calls = 1
    /\ values = << 0 >>

====
